---- MODULE Spec2Model ----
(***************************************************************************)
(* Model of talk_with_db_app.py: a Streamlit page that takes an uploaded   *)
(* SQLite file, shows its structure, and relays questions to an external   *)
(* LLM agent.  Every user interaction re-runs main() from the top; the     *)
(* only state that survives a re-run is st.session_state and the state of  *)
(* the upload widget.  Text is modelled as a sequence of tokens, so that   *)
(* an f-string is the concatenation of its parts.                          *)
(***************************************************************************)
EXTENDS Integers, Sequences, FiniteSets, TLC

VARIABLES
    has_key,        \* groq_api_key is truthy (module level, line 14)
    uploaded_file,  \* value of st.file_uploader: << >> (None) or <<file>>
    tmp_files,      \* temporary files written so far; a path is an index
    ss_keys,        \* keys present in st.session_state
    db_path,        \* st.session_state.db_path (0 while the key is absent)
    db_name,        \* st.session_state.db_name ("" while the key is absent)
    messages,       \* st.session_state.messages
    pc,             \* "idle", or "awaiting_agent" while agent.run blocks
    ui,             \* what the last re-run rendered
    bridge_called,  \* get_agent_response has been called
    agent_ran,      \* agent.run has been called
    bridge_result,  \* what get_agent_response last gave its caller
    last_outcome,   \* outcome of the last agent.run
    uncaught,       \* an exception escaped main()
    last_op,        \* the interaction that produced this state
    db_file,        \* argument of a direct call of a database function
    fn_call,        \* the direct call made
    fn_result       \* its result

sessionVars == <<has_key, uploaded_file, tmp_files, ss_keys, db_path, db_name,
                 messages, pc, ui, bridge_called, agent_ran, bridge_result,
                 last_outcome, uncaught, last_op>>

fnVars == <<db_file, fn_call, fn_result>>

vars == <<has_key, uploaded_file, tmp_files, ss_keys, db_path, db_name,
          messages, pc, ui, bridge_called, agent_ran, bridge_result,
          last_outcome, uncaught, last_op, db_file, fn_call, fn_result>>

----------------------------------------------------------------------------
\* Bounds

MaxMsgs == 4

MaxTmp == 4

MaxCols == 2

MaxRows == 2

MaxK == 3

\* preview_table(db_path, table_name, limit=5)
DefaultLimit == 5

----------------------------------------------------------------------------
\* Results of calls: a value returned or an exception raised.

Return(v) == [kind |-> "return", value |-> v, detail |-> "", ran_agent |-> FALSE]

Raise(d) == [kind |-> "raise", value |-> << >>, detail |-> d, ran_agent |-> FALSE]

NoResult == [kind |-> "none", value |-> << >>, detail |-> "", ran_agent |-> FALSE]

----------------------------------------------------------------------------
\* SQLite files.  A table has columns and rows.

TableNames == {"customers", "orders", "order items"}

\* names that are not one SQL token when interpolated unquoted
QuotedNames == {"order items"}

EmptyCatalog == [n \in {} |-> 0]

InvalidDb == [valid |-> FALSE, tables |-> EmptyCatalog]

TableShapes == [ncols : 1..MaxCols, nrows : 0..MaxRows]

Catalogs == UNION {[S -> TableShapes] : S \in SUBSET TableNames}

AllDbFiles == {[valid |-> TRUE, tables |-> c] : c \in Catalogs} \cup {InvalidDb}

\* cursor.execute("SELECT name FROM sqlite_master WHERE type='table';")
sqlite_master_tables(db) ==
    IF db.valid THEN Return(DOMAIN db.tables)
    ELSE Raise("file is not a database")

\* cursor.execute(f"PRAGMA table_info({table_name})")
pragma_table_info(db, n) ==
    IF n \in QuotedNames THEN Raise("syntax error")
    ELSE IF n \notin DOMAIN db.tables THEN Return(<< >>)
    ELSE Return([i \in 1..db.tables[n].ncols |-> i])

\* cursor.execute(f"SELECT COUNT(*) FROM {table_name}")
select_count(db, n) ==
    IF n \in QuotedNames THEN Raise("syntax error")
    ELSE IF n \notin DOMAIN db.tables THEN Raise("no such table")
    ELSE Return(db.tables[n].nrows)

RECURSIVE ExploreLoop(_, _, _)
ExploreLoop(db, remaining, table_info) ==
    IF remaining = {} THEN Return(table_info)
    ELSE LET table_name == CHOOSE t \in remaining : TRUE
             columns == pragma_table_info(db, table_name)
             row_count == select_count(db, table_name)
         IN  IF columns.kind = "raise" THEN columns
             ELSE IF row_count.kind = "raise" THEN row_count
             ELSE ExploreLoop(db, remaining \ {table_name},
                      table_info @@ (table_name :>
                          [columns |-> columns.value,
                           row_count |-> row_count.value]))

explore_database(db) ==
    LET tables == sqlite_master_tables(db)
    IN  IF tables.kind = "raise" THEN tables
        ELSE ExploreLoop(db, tables.value, EmptyCatalog)

SqlLimit_noLimit(r, k) == r

\* rows produced by SELECT ... LIMIT k over r rows; a negative LIMIT is no limit
SqlLimit(r, k) == IF k < 0 THEN r ELSE IF k < r THEN k ELSE r

preview_table(db, table_name, limit) ==
    IF ~db.valid THEN Raise("file is not a database")
    ELSE IF table_name \in QuotedNames THEN Raise("syntax error")
    ELSE IF table_name \notin DOMAIN db.tables THEN Raise("no such table")
    ELSE Return([i \in 1..SqlLimit(db.tables[table_name].nrows, limit) |-> i])

----------------------------------------------------------------------------
\* Text

FixedKeyMessage == <<"Please configure your GROQ API key to use this feature.">>

KeyMissingError == <<"GROQ_API_KEY not found. Please set your API key in the environment variables.">>

BridgeErrorPrefix == "Error processing query: "

\* the prefix of main's own handler starts with a cross-mark emoji
MainErrorPrefix == "(cross mark) Error processing query: "

ExploreErrorPrefix == "Error exploring database: "

\* ansi_escape.sub('', clean_response)
RemoveAnsi(s) == SelectSeq(s, LAMBDA c : c # "ansi")

RECURSIVE LStrip(_)
LStrip(s) == IF s # << >> /\ Head(s) = "ws" THEN LStrip(Tail(s)) ELSE s

RECURSIVE RStrip(_)
RStrip(s) ==
    IF s # << >> /\ s[Len(s)] = "ws" THEN RStrip(SubSeq(s, 1, Len(s) - 1)) ELSE s

\* clean_response.strip()
Strip(s) == RStrip(LStrip(s))

----------------------------------------------------------------------------
\* The external agent: what agent.run(query) can do.

Outcome(k, hc, str, t, d) ==
    [kind |-> k, has_content |-> hc, content_is_str |-> str, text |-> t, detail |-> d]

NoOutcome == Outcome("none", FALSE, FALSE, << >>, "")

AgentOutcomes ==
    { Outcome("reply", TRUE, TRUE, <<"ws", "ansi", "answer", "ansi", "ws">>, ""),
      Outcome("reply", FALSE, FALSE, <<"repr">>, ""),
      Outcome("reply", TRUE, FALSE, << >>, ""),
      Outcome("fail", FALSE, FALSE, << >>, "connection error") }

\* lines 66-81: the body of the try block, given the object agent.run returned
CleanResponse(o) ==
    IF o.has_content /\ ~o.content_is_str
    THEN Raise("expected string or bytes-like object")
    ELSE Return(Strip(RemoveAnsi(o.text)))

Ran(r) == [r EXCEPT !.ran_agent = TRUE]

get_agent_response_noCatch(query, db, o) ==
    LET table_info == explore_database(db)
    IN  IF table_info.kind = "raise" THEN table_info
        ELSE IF o.kind = "fail" THEN Ran(Raise(o.detail))
        ELSE Ran(CleanResponse(o))

get_agent_response_bareDetail(query, db, o) ==
    LET table_info == explore_database(db)
        body == CleanResponse(o)
    IN  IF table_info.kind = "raise" THEN table_info
        ELSE IF o.kind = "fail" THEN Ran(Return(<<o.detail>>))
        ELSE IF body.kind = "raise" THEN Ran(Return(<<body.detail>>))
        ELSE Ran(body)

\* explore_database and the Agent constructor run outside the try block;
\* agent.run and the clean-up run inside it.
get_agent_response(query, db, o) ==
    LET table_info == explore_database(db)
        body == CleanResponse(o)
    IN  IF table_info.kind = "raise" THEN table_info
        ELSE IF o.kind = "fail" THEN Ran(Return(<<BridgeErrorPrefix, o.detail>>))
        ELSE IF body.kind = "raise" THEN Ran(Return(<<BridgeErrorPrefix, body.detail>>))
        ELSE Ran(body)

ChatResponse_ignoresKey(key, query, db, o) ==
    LET r == get_agent_response(query, db, o)
    IN  IF r.kind = "raise"
        THEN [content |-> <<MainErrorPrefix, r.detail>>,
              error |-> <<MainErrorPrefix, r.detail>>, bridge |-> r]
        ELSE [content |-> r.value, error |-> << >>, bridge |-> r]

\* lines 187-210: the assistant turn for a question
ChatResponse(key, query, db, o) ==
    IF ~key
    THEN [content |-> FixedKeyMessage, error |-> KeyMissingError, bridge |-> NoResult]
    ELSE LET r == get_agent_response(query, db, o)
         IN  IF r.kind = "raise"
             THEN [content |-> <<MainErrorPrefix, r.detail>>,
                   error |-> <<MainErrorPrefix, r.detail>>, bridge |-> r]
             ELSE [content |-> r.value, error |-> << >>, bridge |-> r]

----------------------------------------------------------------------------
\* The files the user has at hand, and the questions typed.

ShopDb ==
    [valid |-> TRUE,
     tables |-> ("customers" :> [ncols |-> 3, nrows |-> 7])
             @@ ("orders" :> [ncols |-> 3, nrows |-> 3])]

NotesDb ==
    [valid |-> TRUE,
     tables |-> ("order items" :> [ncols |-> 2, nrows |-> 1])]

UploadFiles ==
    { [name |-> "shop.db", data |-> ShopDb],
      [name |-> "notes.sqlite", data |-> NotesDb],
      [name |-> "broken.db", data |-> InvalidDb] }

Prompts == {"Show me all customers from Germany"}

NoClick == ""

NoPreview == -1

----------------------------------------------------------------------------
\* One run of main(), in the order of the script.

SidebarExplore_noTry(db, clicked) ==
    LET table_info == explore_database(db)
    IN  IF table_info.kind = "raise"
        THEN [error |-> << >>, tables |-> {}, preview |-> NoPreview, escaped |-> TRUE]
        ELSE IF clicked \in DOMAIN table_info.value
        THEN LET preview_df == preview_table(db, clicked, DefaultLimit)
             IN  IF preview_df.kind = "raise"
                 THEN [error |-> << >>, tables |-> DOMAIN table_info.value,
                       preview |-> NoPreview, escaped |-> TRUE]
                 ELSE [error |-> << >>, tables |-> DOMAIN table_info.value,
                       preview |-> Len(preview_df.value), escaped |-> FALSE]
        ELSE [error |-> << >>, tables |-> DOMAIN table_info.value,
              preview |-> NoPreview, escaped |-> FALSE]

\* lines 146-161: the try block of the sidebar; an expander and a preview
\* button per table, the preview of the clicked one, st.error on any exception
SidebarExplore(db, clicked) ==
    LET table_info == explore_database(db)
    IN  IF table_info.kind = "raise"
        THEN [error |-> <<ExploreErrorPrefix, table_info.detail>>, tables |-> {},
              preview |-> NoPreview, escaped |-> FALSE]
        ELSE IF clicked \in DOMAIN table_info.value
        THEN LET preview_df == preview_table(db, clicked, DefaultLimit)
             IN  IF preview_df.kind = "raise"
                 THEN [error |-> <<ExploreErrorPrefix, preview_df.detail>>,
                       tables |-> DOMAIN table_info.value,
                       preview |-> NoPreview, escaped |-> FALSE]
                 ELSE [error |-> << >>, tables |-> DOMAIN table_info.value,
                       preview |-> Len(preview_df.value), escaped |-> FALSE]
        ELSE [error |-> << >>, tables |-> DOMAIN table_info.value,
              preview |-> NoPreview, escaped |-> FALSE]

NoExplore == [error |-> << >>, tables |-> {}, preview |-> NoPreview, escaped |-> FALSE]

\* lines 124-161: with a file in the upload control, every run writes it to a
\* new temporary file and points the session at that file
Sidebar(uf, clicked, tmp, keys, path, name) ==
    IF uf = << >>
    THEN [tmp |-> tmp, keys |-> keys, path |-> path, name |-> name,
          success |-> FALSE, explore |-> NoExplore]
    ELSE [tmp |-> Append(tmp, uf[1].data),
          keys |-> keys \cup {"db_path", "db_name"},
          path |-> Len(tmp) + 1,
          name |-> uf[1].name,
          success |-> TRUE,
          explore |-> SidebarExplore(uf[1].data, clicked)]

\* lines 164-170: the chat pane exists when db_path is in the session state,
\* and creates the transcript if it is missing
MainPane(keys) == IF "db_path" \in keys THEN keys \cup {"messages"} ELSE keys

Rendered(sb, chat_error) ==
    [view |-> IF sb.explore.escaped THEN "exception"
              ELSE IF "db_path" \in sb.keys THEN "chat" ELSE "welcome",
     success |-> sb.success,
     sidebar_error |-> sb.explore.error,
     tables |-> sb.explore.tables,
     preview |-> sb.explore.preview,
     chat_error |-> chat_error]

UserTurn(p) == [role |-> "user", content |-> <<p>>]

AssistantTurn(c) == [role |-> "assistant", content |-> c]

\* number of temporary files a run writes
Writes(uf) == IF uf = << >> THEN 0 ELSE 1

----------------------------------------------------------------------------
\* Session

Init ==
    /\ has_key \in BOOLEAN
    /\ uploaded_file = << >>
    /\ tmp_files = << >>
    /\ ss_keys = {}
    /\ db_path = 0
    /\ db_name = ""
    /\ messages = << >>
    /\ pc = "idle"
    /\ ui = Rendered(Sidebar(<< >>, NoClick, << >>, {}, 0, ""), << >>)
    /\ bridge_called = FALSE
    /\ agent_ran = FALSE
    /\ bridge_result = NoResult
    /\ last_outcome = NoOutcome
    /\ uncaught = FALSE
    /\ last_op = "init"
    /\ db_file = InvalidDb
    /\ fn_call = [op |-> "none", table |-> "", limit |-> 0]
    /\ fn_result = NoResult

\* A run in which no question is asked and the clear button is not clicked.
PlainRun(uf, clicked, op) ==
    LET sb == Sidebar(uf, clicked, tmp_files, ss_keys, db_path, db_name)
    IN  /\ uploaded_file' = uf
        /\ tmp_files' = sb.tmp
        /\ db_path' = sb.path
        /\ db_name' = sb.name
        /\ ss_keys' = IF sb.explore.escaped THEN sb.keys ELSE MainPane(sb.keys)
        /\ ui' = Rendered(sb, << >>)
        /\ uncaught' = (uncaught \/ sb.explore.escaped)
        /\ last_op' = op
        /\ UNCHANGED <<has_key, messages, pc, bridge_called, agent_ran,
                       bridge_result, last_outcome>>
        /\ UNCHANGED fnVars

\* The user puts a file into the upload control.
Upload(f) ==
    /\ pc = "idle"
    /\ Len(tmp_files) + 1 <= MaxTmp
    /\ PlainRun(<<f>>, NoClick, "upload")

RemoveFile_unsets ==
    /\ pc = "idle"
    /\ uploaded_file # << >>
    /\ uploaded_file' = << >>
    /\ ss_keys' = ss_keys \ {"db_path", "db_name"}
    /\ db_path' = 0
    /\ db_name' = ""
    /\ ui' = Rendered(Sidebar(<< >>, NoClick, tmp_files, ss_keys', 0, ""), << >>)
    /\ last_op' = "remove"
    /\ UNCHANGED <<has_key, tmp_files, messages, pc, bridge_called, agent_ran,
                   bridge_result, last_outcome, uncaught>>
    /\ UNCHANGED fnVars

\* The user removes the file from the upload control.
RemoveFile ==
    /\ pc = "idle"
    /\ uploaded_file # << >>
    /\ PlainRun(<< >>, NoClick, "remove")

\* The user clicks a table's preview button.
ClickPreview(t) ==
    /\ pc = "idle"
    /\ uploaded_file # << >>
    /\ t \in ui.tables
    /\ Len(tmp_files) + 1 <= MaxTmp
    /\ PlainRun(uploaded_file, t, "preview")

\* The user submits a question: the run goes up to the blocking agent.run
\* call, or to its end when no call is made.
Ask(p) ==
    /\ pc = "idle"
    /\ ui.view = "chat"
    /\ Len(messages) + 2 <= MaxMsgs
    /\ Len(tmp_files) + Writes(uploaded_file) <= MaxTmp
    /\ LET sb == Sidebar(uploaded_file, NoClick, tmp_files, ss_keys, db_path, db_name)
           keys == MainPane(sb.keys)
           cr == ChatResponse(has_key, p, sb.tmp[sb.path], NoOutcome)
           asked == Append(messages, UserTurn(p))
       IN  /\ tmp_files' = sb.tmp
           /\ db_path' = sb.path
           /\ db_name' = sb.name
           /\ uncaught' = (uncaught \/ sb.explore.escaped)
           /\ last_op' = "ask"
           /\ IF sb.explore.escaped \/ "db_path" \notin keys
              THEN /\ ss_keys' = sb.keys
                   /\ ui' = Rendered(sb, << >>)
                   /\ UNCHANGED <<messages, pc, bridge_called, agent_ran, bridge_result>>
              ELSE /\ ss_keys' = keys
                   /\ ui' = Rendered(sb, cr.error)
                   /\ bridge_called' = (bridge_called \/ cr.bridge.kind # "none")
                   /\ agent_ran' = (agent_ran \/ cr.bridge.ran_agent)
                   /\ IF cr.bridge.ran_agent
                      THEN /\ messages' = asked
                           /\ pc' = "awaiting_agent"
                           /\ UNCHANGED bridge_result
                      ELSE /\ messages' = Append(asked, AssistantTurn(cr.content))
                           /\ pc' = "idle"
                           /\ bridge_result' = cr.bridge
    /\ UNCHANGED <<has_key, uploaded_file, last_outcome>>
    /\ UNCHANGED fnVars

AgentCompletes_dropsErrorTurn(o) ==
    /\ pc = "awaiting_agent"
    /\ LET cr == ChatResponse(has_key, messages[Len(messages)].content[1],
                              tmp_files[db_path], o)
       IN  /\ messages' = IF o.kind = "fail" THEN messages
                          ELSE Append(messages, AssistantTurn(cr.content))
           /\ bridge_result' = cr.bridge
           /\ ui' = [ui EXCEPT !.chat_error = cr.error]
    /\ pc' = "idle"
    /\ last_outcome' = o
    /\ last_op' = "agent_done"
    /\ UNCHANGED <<has_key, uploaded_file, tmp_files, ss_keys, db_path, db_name,
                   bridge_called, agent_ran, uncaught>>
    /\ UNCHANGED fnVars

\* agent.run comes back (or raises) and the run goes on to its end.
AgentCompletes(o) ==
    /\ pc = "awaiting_agent"
    /\ LET cr == ChatResponse(has_key, messages[Len(messages)].content[1],
                              tmp_files[db_path], o)
       IN  /\ messages' = Append(messages, AssistantTurn(cr.content))
           /\ bridge_result' = cr.bridge
           /\ ui' = [ui EXCEPT !.chat_error = cr.error]
    /\ pc' = "idle"
    /\ last_outcome' = o
    /\ last_op' = "agent_done"
    /\ UNCHANGED <<has_key, uploaded_file, tmp_files, ss_keys, db_path, db_name,
                   bridge_called, agent_ran, uncaught>>
    /\ UNCHANGED fnVars

\* The user clicks the clear button: the run empties the transcript and calls
\* st.rerun(), which runs the script once more.
Clear ==
    /\ pc = "idle"
    /\ ui.view = "chat"
    /\ Len(tmp_files) + 2 * Writes(uploaded_file) <= MaxTmp
    /\ LET sb1 == Sidebar(uploaded_file, NoClick, tmp_files, ss_keys, db_path, db_name)
           sb2 == Sidebar(uploaded_file, NoClick, sb1.tmp, sb1.keys, sb1.path, sb1.name)
       IN  IF sb1.explore.escaped \/ "db_path" \notin sb1.keys
           THEN /\ tmp_files' = sb1.tmp
                /\ db_path' = sb1.path
                /\ db_name' = sb1.name
                /\ ss_keys' = sb1.keys
                /\ ui' = Rendered(sb1, << >>)
                /\ uncaught' = (uncaught \/ sb1.explore.escaped)
                /\ UNCHANGED messages
           ELSE /\ tmp_files' = sb2.tmp
                /\ db_path' = sb2.path
                /\ db_name' = sb2.name
                /\ ss_keys' = IF sb2.explore.escaped THEN sb2.keys ELSE MainPane(sb2.keys)
                /\ ui' = Rendered(sb2, << >>)
                /\ uncaught' = (uncaught \/ sb2.explore.escaped)
                /\ messages' = << >>
    /\ last_op' = "clear"
    /\ UNCHANGED <<has_key, uploaded_file, pc, bridge_called, agent_ran,
                   bridge_result, last_outcome>>
    /\ UNCHANGED fnVars

Next ==
    \/ \E f \in UploadFiles : Upload(f)
    \/ RemoveFile
    \/ \E t \in TableNames : ClickPreview(t)
    \/ \E p \in Prompts : Ask(p)
    \/ \E o \in AgentOutcomes : AgentCompletes(o)
    \/ Clear

Spec == Init /\ [][Next]_vars

----------------------------------------------------------------------------
\* The database functions called directly, on any file.

InitDb ==
    /\ has_key = FALSE
    /\ uploaded_file = << >>
    /\ tmp_files = << >>
    /\ ss_keys = {}
    /\ db_path = 0
    /\ db_name = ""
    /\ messages = << >>
    /\ pc = "idle"
    /\ ui = Rendered(Sidebar(<< >>, NoClick, << >>, {}, 0, ""), << >>)
    /\ bridge_called = FALSE
    /\ agent_ran = FALSE
    /\ bridge_result = NoResult
    /\ last_outcome = NoOutcome
    /\ uncaught = FALSE
    /\ last_op = "init"
    /\ db_file \in AllDbFiles
    /\ fn_call = [op |-> "none", table |-> "", limit |-> 0]
    /\ fn_result = NoResult

CallExplore ==
    /\ fn_call' = [op |-> "explore", table |-> "", limit |-> 0]
    /\ fn_result' = explore_database(db_file)
    /\ UNCHANGED db_file
    /\ UNCHANGED sessionVars

\* preview_table on a table the exploration of the file has listed
CallPreview(t, k) ==
    /\ explore_database(db_file).kind = "return"
    /\ t \in DOMAIN explore_database(db_file).value
    /\ fn_call' = [op |-> "preview", table |-> t, limit |-> k]
    /\ fn_result' = preview_table(db_file, t, k)
    /\ UNCHANGED db_file
    /\ UNCHANGED sessionVars

NextDb ==
    \/ CallExplore
    \/ \E t \in TableNames, k \in 0..MaxK : CallPreview(t, k)

SpecDb == InitDb /\ [][NextDb]_vars

----------------------------------------------------------------------------
\* Properties

Min(a, b) == IF a < b THEN a ELSE b

HasDb == "db_path" \in ss_keys

\* C1: without the API key, no question ever reaches get_agent_response or
\* agent.run, and every assistant turn of the transcript is the fixed
\* configuration message.
C1_NoKeyFixedMessage ==
    ~has_key =>
        /\ ~bridge_called
        /\ ~agent_ran
        /\ pc = "idle"
        /\ \A i \in 1..Len(messages) :
               messages[i].role = "assistant" => messages[i].content = FixedKeyMessage

C1_Witness ==
    /\ ~has_key
    /\ last_op = "ask"
    /\ Len(messages) = 4
    /\ messages[4] = AssistantTurn(FixedKeyMessage)

C2_Alternates ==
    /\ \A i \in 1..Len(messages) :
           messages[i].role = IF i % 2 = 1 THEN "user" ELSE "assistant"
    /\ pc = "idle" => Len(messages) % 2 = 0
    /\ pc = "awaiting_agent" => Len(messages) % 2 = 1
    /\ pc \in {"idle", "awaiting_agent"}

C2_Step ==
    (messages' # messages /\ messages' # << >>) =>
        /\ Len(messages') > Len(messages)
        /\ SubSeq(messages', 1, Len(messages)) = messages
        /\ \/ pc = "idle" /\ pc' = "idle" /\ Len(messages') = Len(messages) + 2
           \/ pc = "idle" /\ pc' = "awaiting_agent" /\ Len(messages') = Len(messages) + 1
           \/ pc = "awaiting_agent" /\ pc' = "idle" /\ Len(messages') = Len(messages) + 1

\* C2: a question appends one user turn and then one assistant turn before the
\* session is idle again; whenever the session is idle the transcript
\* alternates user, assistant from a user turn and has even length.
C2_OneUserOneAssistant == [](C2_Alternates) /\ [][C2_Step]_vars

C2_Witness ==
    /\ pc = "idle"
    /\ Len(messages) = 4
    /\ last_op = "agent_done"
    /\ last_outcome.kind = "fail"

C3_FailStep ==
    (pc = "awaiting_agent" /\ pc' = "idle" /\ last_outcome'.kind = "fail") =>
        /\ messages' = Append(messages,
               AssistantTurn(<<BridgeErrorPrefix, last_outcome'.detail>>))
        /\ db_path' = db_path
        /\ db_name' = db_name
        /\ tmp_files' = tmp_files
        /\ ss_keys' = ss_keys
        /\ ui'.view = "chat"

C3_NextQuestion ==
    (last_op = "agent_done" /\ last_outcome.kind = "fail" /\ last_op' = "ask") =>
        /\ Len(messages') > Len(messages)
        /\ SubSeq(messages', 1, Len(messages)) = messages
        /\ messages'[Len(messages) + 1].role = "user"
        /\ pc' = "idle" =>
               /\ Len(messages') = Len(messages) + 2
               /\ messages'[Len(messages')].role = "assistant"

\* C3: when agent.run fails, the error text becomes an assistant turn, the
\* active database and the earlier turns stay as they were, the chat pane is
\* still there, and the next question gets its own user and assistant turns.
C3_ErrorTurnSessionUsable == [][C3_FailStep /\ C3_NextQuestion]_vars

C3_Witness ==
    /\ pc = "idle"
    /\ Len(messages) = 4
    /\ messages[2] = AssistantTurn(<<BridgeErrorPrefix, "connection error">>)
    /\ messages[3].role = "user"
    /\ messages[4].role = "assistant"

\* C4: the clear button empties the transcript and leaves the active database
\* (path and name) as it was.
C4_ClearKeepsDatabase ==
    [][last_op' = "clear" =>
          /\ messages' = << >>
          /\ db_path' = db_path
          /\ db_name' = db_name]_vars

\* C5: the upload of a new file while a database is active leaves an empty
\* transcript and the path and name of the new file.
C5_UploadResetsTranscript ==
    [][(last_op' = "upload" /\ HasDb /\ uploaded_file'[1].name # db_name) =>
          /\ messages' = << >>
          /\ db_name' = uploaded_file'[1].name
          /\ db_path' = Len(tmp_files')
          /\ tmp_files'[db_path'] = uploaded_file'[1].data]_vars

\* C6: when agent.run fails, get_agent_response returns the text
\* "Error processing query: <detail>" and raises nothing.
C6_BridgeReturnsErrorText ==
    (last_op = "agent_done" /\ last_outcome.kind = "fail") =>
        /\ bridge_result.kind = "return"
        /\ bridge_result.value = <<BridgeErrorPrefix, last_outcome.detail>>

C6_Witness ==
    /\ last_op = "agent_done"
    /\ last_outcome.kind = "fail"
    /\ bridge_result.kind = "return"
    /\ bridge_result.ran_agent

BadDb(db) == explore_database(db).kind = "raise"

\* C7: a file that is not a database, or a table that cannot be read, shows
\* as an inline error; no exception leaves main(), and the chat pane with its
\* controls is rendered afterwards.
C7_FailuresContained ==
    /\ ~uncaught
    /\ ui.view # "exception"
    /\ (uploaded_file # << >> /\ BadDb(uploaded_file[1].data)) =>
           /\ ui.sidebar_error =
                  <<ExploreErrorPrefix, explore_database(uploaded_file[1].data).detail>>
           /\ ui.view = "chat"
           /\ HasDb
    /\ (has_key /\ last_op = "ask" /\ pc = "idle" /\ BadDb(tmp_files[db_path])) =>
           /\ messages[Len(messages)] = AssistantTurn(
                  <<MainErrorPrefix, explore_database(tmp_files[db_path]).detail>>)
           /\ ui.chat_error = messages[Len(messages)].content

C7_Witness ==
    /\ has_key
    /\ last_op = "ask"
    /\ uploaded_file # << >>
    /\ uploaded_file[1].data = NotesDb
    /\ ui.sidebar_error = <<ExploreErrorPrefix, "syntax error">>
    /\ Len(messages) = 4
    /\ messages[2] = AssistantTurn(<<MainErrorPrefix, "file is not a database">>)
    /\ messages[4] = AssistantTurn(<<MainErrorPrefix, "syntax error">>)

\* C8: for a valid file explore_database returns a descriptor for exactly the
\* tables of the catalog, each with as many columns as the table has.
C8_ExploreExact ==
    (fn_call.op = "explore" /\ db_file.valid) =>
        /\ fn_result.kind = "return"
        /\ DOMAIN fn_result.value = DOMAIN db_file.tables
        /\ \A t \in DOMAIN db_file.tables :
               Len(fn_result.value[t].columns) = db_file.tables[t].ncols

C10_Both ==
    /\ ("db_path" \in ss_keys) <=> ("db_name" \in ss_keys)
    /\ ("db_path" \in ss_keys) <=> (db_path # 0)
    /\ messages # << >> => HasDb

C10_Step ==
    HasDb => ("db_path" \in ss_keys' /\ "db_name" \in ss_keys' /\ db_path' # 0)

\* C10: db_path and db_name are set together, are never unset once set, and
\* a non-empty transcript implies an active database.
C10_DbSetTogetherNeverUnset == [](C10_Both) /\ [][C10_Step]_vars

C10_Witness ==
    /\ last_op = "remove"
    /\ HasDb
    /\ uploaded_file = << >>
    /\ messages # << >>

====
